---------------------------- MODULE Spec2Model ----------------------------
(***************************************************************************)
(* A model of the ml-dsa crate: the decomposition primitives of            *)
(* algebra.rs, the hints of hint.rs, the bit-packing codecs of encode.rs   *)
(* and key generation, signing and verification of lib.rs.                 *)
(*                                                                         *)
(* Integers are the code's: field elements are canonical residues in       *)
(* [0, Q), the 64-bit product of BarrettReduce::reduce is computed in      *)
(* 12-bit limbs, and the u128 accumulator of the codecs is a set of bit    *)
(* positions.                                                              *)
(***************************************************************************)
EXTENDS Integers, Sequences, FiniteSets, TLC

(***************************************************************************)
(* Program constants.                                                      *)
(***************************************************************************)
\* define_field!(BaseField, u32, u64, u128, 8380417)
Q == 8380417
\* SpecD = U13
SpecD == 13
\* DecodedValue<T> = Array<T, U256>: the number of coefficients of a polynomial
NCoeff == 256
\* u16::MAX, the end of the range of kappa
U16Max == 65535

RECURSIVE Pow2Rec(_)
Pow2Rec(n) == IF n = 0 THEN 1 ELSE 2 * Pow2Rec(n - 1)

\* The powers of two of 31 bits, tabulated
Pow2Table == [n \in 0..30 |-> Pow2Rec(n)]

Pow2(n) == Pow2Table[n]

\* u64::ilog2
RECURSIVE ILog2(_)
ILog2(n) == IF n < 2 THEN 0 ELSE 1 + ILog2(n \div 2)

\* typenum's Length<N> (Len): the number of bits of N
Bitlen(n) == IF n = 0 THEN 0 ELSE ILog2(n) + 1

Max(a, b) == IF a >= b THEN a ELSE b

(***************************************************************************)
(* Parameter sets.  K, L, Eta, Gamma1, Lambda, Omega and TAU are those of  *)
(* the parameter sets of lib.rs; Gamma2 and W1Bits, which those lack, are  *)
(* the specification's.                                                    *)
(***************************************************************************)
MlDsa44 ==
    [name |-> "MlDsa44", K |-> 4, L |-> 4, Eta |-> 2, Gamma1 |-> Pow2(17),
     Gamma2 |-> (Q - 1) \div 88, W1Bits |-> 6, Lambda |-> 32, Omega |-> 80,
     TAU |-> 39]

MlDsa65 ==
    [name |-> "MlDsa65", K |-> 6, L |-> 5, Eta |-> 4, Gamma1 |-> Pow2(19),
     Gamma2 |-> (Q - 1) \div 32, W1Bits |-> 4, Lambda |-> 48, Omega |-> 55,
     TAU |-> 49]

MlDsa87 ==
    [name |-> "MlDsa87", K |-> 8, L |-> 7, Eta |-> 2, Gamma1 |-> Pow2(19),
     Gamma2 |-> (Q - 1) \div 32, W1Bits |-> 4, Lambda |-> 64, Omega |-> 75,
     TAU |-> 60]

ParameterSets == {MlDsa44, MlDsa65, MlDsa87}

\* ParameterSet::BETA = TAU * Eta
BETA(P) == P.TAU * P.Eta

(***************************************************************************)
(* Field arithmetic of module_lattice (the field operators of Elem).       *)
(***************************************************************************)
FAdd(a, b) == (a + b) % Q
FSub(a, b) == (a + 2 * Q - b) % Q
FNeg(a) == (Q - a) % Q

\* a * b mod Q without leaving 31 bits: b is taken in three 8-bit limbs
FMul(a, b) ==
    IF b < 256 \/ a < 256 THEN (a * b) % Q ELSE
    LET b0 == b % 256
        b1 == (b \div 256) % 256
        b2 == b \div 65536
        hi == (a * b2) % Q
        mid == (((hi * 256) % Q) + ((a * b1) % Q)) % Q
    IN  (((mid * 256) % Q) + ((a * b0) % Q)) % Q

\* The canonical residue of the signed integer x, |x| < Q
Residue(x) == (x + Q) % Q

(***************************************************************************)
(* algebra.rs: BarrettReduce                                               *)
(***************************************************************************)
\* The moduli the program reduces by: q, 2^d, 2 * gamma2, and gamma2 (hint.rs)
Moduli ==
    {Q, Pow2(SpecD)} \cup {2 * S.Gamma2 : S \in ParameterSets}
        \cup {S.Gamma2 : S \in ParameterSets}

\* const SHIFT: usize = 2 * (M::U64.ilog2() + 1)
BarrettShift(M) == 2 * (ILog2(M) + 1)

\* floor(2^s / M) and 2^s mod M by long division, eight bits of the
\* quotient per step
RECURSIVE Pow2DivMod(_, _)
Pow2DivMod(s, M) ==
    IF s = 0 THEN <<1 \div M, 1 % M>>
    ELSE LET k == IF s % 8 = 0 THEN 8 ELSE s % 8
             p == Pow2DivMod(s - k, M)
             q == p[1]
             r == p[2]
         IN  <<q * Pow2(k) + ((r * Pow2(k)) \div M), (r * Pow2(k)) % M>>

\* const MULTIPLIER: u64 = (1 << Self::SHIFT) / M::U64
BarrettMultiplier(M) == Pow2DivMod(BarrettShift(M), M)[1]

SHIFT == [M \in Moduli |-> BarrettShift(M)]
MULTIPLIER == [M \in Moduli |-> BarrettMultiplier(M)]

\* (x * mult) >> shift in u64, for x, mult < 2^24 and shift >= 24: the product
\* in 12-bit limbs, of which the two low ones are shifted out whole
MulShr(x, mult, shift) ==
    LET xh == x \div 4096
        xl == x % 4096
        mh == mult \div 4096
        ml == mult % 4096
        t0 == xl * ml
        t1 == xh * ml + xl * mh + (t0 \div 4096)
        t2 == xh * mh + (t1 \div 4096)
    IN  t2 \div Pow2(shift - 24)

\* reduce without its conditional subtraction
ReduceRemainderAsIs(M, remainder) == remainder

\* BarrettReduce::reduce, from its remainder on
ReduceRemainder(M, remainder) ==
    IF remainder < M THEN remainder ELSE remainder - M

\* BarrettReduce::reduce, from its quotient on
ReduceQuotient(M, x, quotient) == ReduceRemainder(M, x - quotient * M)

\* BarrettReduce::reduce
Reduce(M, x) == ReduceQuotient(M, x, MulShr(x, MULTIPLIER[M], SHIFT[M]))

(***************************************************************************)
(* algebra.rs: AlgebraExt and Decompose for FieldElement                   *)
(***************************************************************************)
\* AlgebraExt::mod_plus_minus::<M>, from raw_mod on
\* mod_plus_minus sending the half of M itself to the negative side
ModPlusMinusRawStrict(M, raw_mod) ==
    IF raw_mod < M \div 2 THEN raw_mod ELSE FSub(raw_mod, M)

ModPlusMinusRaw(M, raw_mod) ==
    IF raw_mod <= M \div 2 THEN raw_mod ELSE FSub(raw_mod, M)

\* AlgebraExt::mod_plus_minus::<M>
\* mod_plus_minus on x itself, not reduced
mod_plus_minus_unreduced(M, x) == ModPlusMinusRaw(M, x)

mod_plus_minus(M, x) == ModPlusMinusRaw(M, Reduce(M, x))

\* AlgebraExt::infinity_norm
infinity_norm(x) == IF x <= Q \div 2 THEN x ELSE Q - x

\* Decompose::decompose::<TwoGamma2>, from r0 on
\* decompose without its branch for r - r0 = q - 1
DecomposeLowNoBorrow(TwoGamma2, r, r0) == <<FSub(r, r0) \div TwoGamma2, r0>>

DecomposeLow(TwoGamma2, r, r0) ==
    IF FSub(r, r0) = Q - 1
    THEN <<0, FSub(r0, 1)>>
    ELSE <<FSub(r, r0) \div TwoGamma2, r0>>

\* Decompose::decompose::<TwoGamma2>
decompose(TwoGamma2, r) == DecomposeLow(TwoGamma2, r, mod_plus_minus(TwoGamma2, r))

\* AlgebraExt::power2round, from r0 on
\* power2round shifting r itself, not r - r0
Power2RoundLowTruncated(r, r0) == <<r \div Pow2(SpecD), r0>>

Power2RoundLow(r, r0) == <<FSub(r, r0) \div Pow2(SpecD), r0>>

\* AlgebraExt::power2round
power2round(r) == Power2RoundLow(r, mod_plus_minus(Pow2(SpecD), r))

\* AlgebraExt::high_bits::<TwoGamma2>
high_bits(TwoGamma2, r) == decompose(TwoGamma2, r)[1]

\* AlgebraExt::low_bits::<TwoGamma2>
low_bits(TwoGamma2, r) == decompose(TwoGamma2, r)[2]

(***************************************************************************)
(* hint.rs: make_hint and use_hint.  Their type parameter, named Gamma2,   *)
(* is handed to high_bits and decompose as the modulus.                    *)
(***************************************************************************)
make_hint(Gamma2, z, r) ==
    LET r1 == high_bits(Gamma2, r)
        v1 == high_bits(Gamma2, FAdd(r, z))
    IN  r1 # v1

\* The value of a call that reached unreachable!()
Unreachable == -1

\* use_hint taking no stored r0 for a negative one
UseHintDecomposedUnsigned(Gamma2, h, m, r1, r0) ==
    IF h /\ r0 <= Gamma2 THEN (r1 + 1) % m
    ELSE IF h /\ r0 > Q THEN (r1 + m - 1) % m
    ELSE IF h THEN Unreachable
    ELSE r1

\* use_hint, from (r1, r0) on
UseHintDecomposed(Gamma2, h, m, r1, r0) ==
    IF h /\ r0 <= Gamma2 THEN (r1 + 1) % m
    ELSE IF h /\ r0 > Q - Gamma2 THEN (r1 + m - 1) % m
    ELSE IF h THEN Unreachable
    ELSE r1

\* use_hint, from the pair decompose returns on
UseHintPair(Gamma2, h, d) ==
    UseHintDecomposed(Gamma2, h, (Q - 1) \div (2 * Gamma2), d[1], d[2])

use_hint(Gamma2, h, r) == UseHintPair(Gamma2, h, decompose(Gamma2, r))


(***************************************************************************)
(* param.rs: EncodingSize                                                  *)
(***************************************************************************)
RECURSIVE Gcd(_, _)
Gcd(a, b) == IF b = 0 THEN a ELSE Gcd(b, a % b)

\* The width of the integers the codecs shift (u32 values widened to u128)
ValueBits == 32

\* The widths D of the codecs
Widths == 1..ValueBits

\* type EncodingUnit<D> = Quot<Prod<D, U8>, Gcf<D, U8>>
EncodingUnits == [D \in Widths |-> (D * 8) \div Gcd(D, 8)]
EncodingUnit(D) == EncodingUnits[D]

\* type ValueStep = Quot<EncodingUnit<D>, D>
ValueSteps == [D \in Widths |-> EncodingUnits[D] \div D]
ValueStep(D) == ValueSteps[D]

\* type ByteStep = Quot<EncodingUnit<D>, U8>
ByteSteps == [D \in Widths |-> EncodingUnits[D] \div 8]
ByteStep(D) == ByteSteps[D]

\* type EncodedPolynomialSize = Prod<D, U32>
EncodedPolynomialSize(D) == D * 32

\* RangeEncodingSize::EncodingSize = Length<Sum<A, B>>
RangeEncodingBits(a, b) == Bitlen(a + b)

(***************************************************************************)
(* encode.rs: the codecs.  A decoded value is a sequence of NCoeff         *)
(* integers, an encoded one a sequence of bytes.                           *)
(***************************************************************************)
\* Bit i of the unsigned integer v < 2^31
BitAt(v, i) == IF i >= 31 THEN 0 ELSE (v \div Pow2(i)) % 2


\* AccumulatorBit with the values of a chunk shifted in the opposite order:
\* x |= u128::from(*vj) << (D::USIZE * (val_step - 1 - j))
AccumulatorBitReversed(D, vals, c, n) ==
    \E j \in 0..(ValueStep(D) - 1) :
        /\ D * j <= n
        /\ BitAt(vals[c * ValueStep(D) + (ValueStep(D) - 1 - j) + 1], n - D * j) = 1

\* Bit n of x after the loop  x |= u128::from(*vj) << (D::USIZE * j)  over
\* chunk c (from 0) of vals.chunks(val_step): the OR of the bits the shifted
\* values have there
AccumulatorBit(D, vals, c, n) ==
    \E j \in Max(0, (n - ValueBits + D) \div D)..(ValueStep(D) - 1) :
        /\ D * j <= n
        /\ BitAt(vals[c * ValueStep(D) + j + 1], n - D * j) = 1

\* Byte k of x.to_le_bytes() for chunk c
AccumulatorByte(D, vals, c, k) ==
    LET bit(i) == IF AccumulatorBit(D, vals, c, 8 * k + i) THEN Pow2(i) ELSE 0
    IN  bit(0) + bit(1) + bit(2) + bit(3) + bit(4) + bit(5) + bit(6) + bit(7)

\* Algorithm 16 SimpleBitPack
simple_bit_pack(D, vals) ==
    LET byte_step == ByteStep(D)
        bytes == [k \in 1..EncodedPolynomialSize(D) |->
                     AccumulatorByte(D, vals, (k - 1) \div byte_step,
                                     (k - 1) % byte_step)]
    IN  SubSeq(bytes, 1, EncodedPolynomialSize(D))

\* Bit n of u128::from_le_bytes(xb), xb chunk c (from 0) of
\* bytes.chunks(byte_step)
ChunkBit(D, bytes, c, n) == BitAt(bytes[c * ByteStep(D) + (n \div 8) + 1], n % 8)

\* ChunkValue with a mask one bit too wide: mask = (1 << (D + 1)) - 1
ChunkValueWideMask(D, bytes, c, j) ==
    LET RECURSIVE Sum(_)
        Sum(i) == IF i = D + 1 \/ D * j + i >= EncodingUnit(D) THEN 0
                  ELSE ChunkBit(D, bytes, c, D * j + i) * Pow2(i) + Sum(i + 1)
    IN  Sum(0)

\* (x >> (D::USIZE * j)) & mask
ChunkValue(D, bytes, c, j) ==
    LET RECURSIVE Sum(_)
        Sum(i) == IF i = D THEN 0
                  ELSE ChunkBit(D, bytes, c, D * j + i) * Pow2(i) + Sum(i + 1)
    IN  Sum(0)

\* Algorithm 18 SimpleBitUnpack
simple_bit_unpack(D, bytes) ==
    LET val_step == ValueStep(D)
        vals == [i \in 1..NCoeff |->
                    ChunkValue(D, bytes, (i - 1) \div val_step,
                               (i - 1) % val_step)]
    IN  SubSeq(vals, 1, NCoeff)

\* What a call that failed an assert!() leaves in place of its value
Panicked == <<-1>>

\* Algorithm 17 BitPack
bit_pack(a, b, vals) ==
    IF \A i \in 1..Len(vals) : vals[i] <= b \/ vals[i] >= FNeg(a)
    THEN simple_bit_pack(RangeEncodingBits(a, b),
                         SubSeq([i \in 1..Len(vals) |-> FSub(b, vals[i])],
                                1, Len(vals)))
    ELSE Panicked

\* Algorithm 17 BitPack, the decoder
bit_unpack(a, b, bytes) ==
    LET zs == simple_bit_unpack(RangeEncodingBits(a, b), bytes)
    IN  IF \A i \in 1..Len(zs) : zs[i] < FAdd(a, b)
        THEN SubSeq([i \in 1..Len(zs) |-> FSub(b, zs[i])], 1, Len(zs))
        ELSE Panicked

(***************************************************************************)
(* Polynomials.  A polynomial of the model is constant on each of three    *)
(* runs of coefficient positions, of OMEGA, 1 and 255 - OMEGA coefficients; *)
(* it is written as the three values.  Code that maps over coefficients    *)
(* acts on the value of each run, code that counts coefficients counts     *)
(* the length of the run.  Multiplication in the ring is the pointwise     *)
(* product of the NTT domain.                                              *)
(***************************************************************************)
Blocks == 1..3

BlockLen(P) == <<P.Omega, 1, NCoeff - 1 - P.Omega>>

\* The run of coefficient i (from 1)
BlockOf(P, i) == IF i <= P.Omega THEN 1 ELSE IF i = P.Omega + 1 THEN 2 ELSE 3

\* The NCoeff coefficients of the polynomial p
Coefficients(P, p) == [i \in 1..NCoeff |-> p[BlockOf(P, i)]]

\* The sequence <<Op(1), ..., Op(n)>>
Tabulate(n, Op(_)) == SubSeq([k \in 1..n |-> Op(k)], 1, n)

\* The polynomial of values Op(b) on run b
Poly(Op(_)) == <<Op(1), Op(2), Op(3)>>

ConstPoly(v) == <<v, v, v>>

\* The vector of the polynomials Op(i, _), i in 1..n
Vec(n, Op(_, _)) ==
    LET row(i) == LET coef(b) == Op(i, b) IN Poly(coef)
    IN  Tabulate(n, row)

\* Add, Sub and Neg of PolynomialVector
VecAdd(u, v) == LET e(i, b) == FAdd(u[i][b], v[i][b]) IN Vec(Len(u), e)
VecSub(u, v) == LET e(i, b) == FSub(u[i][b], v[i][b]) IN Vec(Len(u), e)
VecNeg(u) == LET e(i, b) == FNeg(u[i][b]) IN Vec(Len(u), e)

\* (&c_hat * &v_hat).ntt_inverse(): the vector v times the polynomial c
PolyMulVec(c, v) == LET e(i, b) == FMul(v[i][b], c[b]) IN Vec(Len(v), e)

\* FieldElement(k) * &v
ScalarMulVec(k, v) == LET e(i, b) == FMul(v[i][b], k) IN Vec(Len(v), e)

\* (&A_hat * &y.ntt()).ntt_inverse(): the matrix A times the vector y
MatMulVec(A, y) ==
    LET RECURSIVE Dot(_, _, _)
        Dot(i, b, l) == IF l = 0 THEN 0
                        ELSE FAdd(Dot(i, b, l - 1), FMul(y[l][b], A[i][l][b]))
        e(i, b) == Dot(i, b, Len(y))
    IN  Vec(Len(A), e)

(***************************************************************************)
(* algebra.rs: AlgebraExt for Polynomial and PolynomialVector              *)
(***************************************************************************)
\* AlgebraExt::infinity_norm for Polynomial
poly_infinity_norm(p) ==
    Max(Max(infinity_norm(p[1]), infinity_norm(p[2])), infinity_norm(p[3]))

\* AlgebraExt::infinity_norm for PolynomialVector<K>
RECURSIVE MaxOver(_, _)
MaxOver(v, i) ==
    IF i = 0 THEN 0 ELSE Max(poly_infinity_norm(v[i]), MaxOver(v, i - 1))

vec_infinity_norm(v) == MaxOver(v, Len(v))

vec_mod_plus_minus(M, v) ==
    LET e(i, b) == mod_plus_minus(M, v[i][b]) IN Vec(Len(v), e)

vec_high_bits(TwoGamma2, v) ==
    LET e(i, b) == high_bits(TwoGamma2, v[i][b]) IN Vec(Len(v), e)

vec_low_bits(TwoGamma2, v) ==
    LET e(i, b) == low_bits(TwoGamma2, v[i][b]) IN Vec(Len(v), e)

vec_power2round(v) ==
    LET e1(i, b) == power2round(v[i][b])[1]
        e0(i, b) == power2round(v[i][b])[2]
    IN  [r1 |-> Vec(Len(v), e1), r0 |-> Vec(Len(v), e0)]

(***************************************************************************)
(* hint.rs: Hint<P>                                                        *)
(***************************************************************************)
\* Hint::new
Hint_new(P, z, r) ==
    LET e(i, b) == make_hint(P.Gamma2, z[i][b], r[i][b]) IN Vec(Len(z), e)

\* Hint::hamming_weight
hamming_weight(P, h) ==
    LET ones(i, b) == IF h[i][b] THEN BlockLen(P)[b] ELSE 0
        RECURSIVE Count(_)
        Count(i) ==
            IF i = 0 THEN 0
            ELSE ones(i, 1) + ones(i, 2) + ones(i, 3) + Count(i - 1)
    IN  Count(Len(h))

\* Hint::use_hint
Hint_use_hint(P, h, r) ==
    LET e(i, b) == use_hint(P.Gamma2, h[i][b], r[i][b]) IN Vec(Len(h), e)

\* Whether a call of Hint::use_hint reached unreachable!()
HintAborts(v) == \E i \in DOMAIN v : \E b \in Blocks : v[i][b] = Unreachable

(***************************************************************************)
(* The external primitives: the XOF and the samplers built on it.  A       *)
(* digest is written as what was absorbed (no two inputs collide); an      *)
(* encoded vector that is absorbed is written as its chunks at the         *)
(* positions that tell two polynomials of the model apart.                 *)
(***************************************************************************)
\* The chunks of an encoding at width D that hold the ends of the runs
RepChunks(D, P) ==
    <<0, P.Omega \div ValueStep(D), (NCoeff - 1) \div ValueStep(D)>>

\* SimpleBitPack::<D>::pack of the vector v, at those chunks
PackAt(D, P, v) ==
    LET chunks == RepChunks(D, P)
        row(i) ==
            LET vals == Coefficients(P, v[i])
                chunk(n) ==
                    LET byte(k) == AccumulatorByte(D, vals, chunks[n], k - 1)
                    IN  Tabulate(ByteStep(D), byte)
            IN  Tabulate(Len(chunks), chunk)
    IN  Tabulate(Len(v), row)

\* SignatureParams::encode_w1
encode_w1(P, w1) == PackAt(P.W1Bits, P, w1)

\* type SpecQ = Diff<Diff<Shleft<U1, U23>, Shleft<U1, U13>>, U1>
SpecQ == (Pow2(23) - Pow2(13)) - 1

\* type QMinus1 = Diff<SpecQ, U1>
QMinus1 == SpecQ - 1

\* type BitlenQMinusD = Diff<Length<SpecQ>, SpecD>
BitlenQMinusD == Bitlen(SpecQ) - SpecD

\* VerificationKeyParams::encode_t1
encode_t1(P, t1) == PackAt(BitlenQMinusD, P, t1)

\* H::default().absorb(a).absorb(b).squeeze_new()
H(a, b) == <<a, b>>

\* ExpandA: the matrix of the seed rho
ExpandA(P, rho) ==
    LET row(i) ==
            LET entry(l) ==
                    ConstPoly(IF l = ((i - 1) % P.L) + 1
                              THEN (IF rho % 2 = 0 THEN 1 ELSE Pow2(SpecD))
                              ELSE (rho \div 2) % 2)
            IN  Tabulate(P.L, entry)
    IN  Tabulate(P.K, row)

\* ExpandS: n polynomials of coefficients eta - (v mod (2 eta + 1)), v the
\* next value of the stream of the seed
ExpandS(rhop, eta, offset, n) ==
    LET e(t, b) == Residue(eta - ((rhop + t - 1 + offset + b) % (2 * eta + 1)))
    IN  Vec(n, e)

(***************************************************************************)
(* Bounds of the model.                                                    *)
(***************************************************************************)
\* Key generation seeds are 0..MaxSeed
MaxSeed == 1
\* Messages are 0..MaxMsg
MaxMsg == 1
\* Signing randomness is 0..MaxRnd
MaxRnd == 86
\* Mask coefficients lie within MaskSpread of a threshold of the signing loop
MaskSpread == 4

\* The coefficient values of the masks of the model: 0, gamma1, and the
\* values around gamma1 - beta, gamma2 - beta and gamma2 / 2
MaskLevels(P) ==
    LET around(v) == [d \in 1..(2 * MaskSpread + 1) |-> v + d - MaskSpread - 1]
    IN  <<P.Gamma1, 0>> \o around(P.Gamma1 - BETA(P))
            \o around(P.Gamma2 - BETA(P)) \o around(P.Gamma2 \div 2)

\* The mask the XOF gives at kappa = 0 for the seed rnd: one level, in all
\* coefficients, in the first run of the first polynomial, or in its first
\* two runs
FirstMask(P, rnd) ==
    LET levels == MaskLevels(P)
        v == levels[(rnd % Len(levels)) + 1]
        shape == (rnd \div Len(levels)) % 3
        poly(l) == IF shape = 0 THEN ConstPoly(v)
                   ELSE IF l > 1 THEN ConstPoly(0)
                   ELSE IF shape = 1 THEN <<v, 0, 0>>
                   ELSE <<v, v, 0>>
    IN  Tabulate(P.L, poly)

\* The seeds rho'' = H(K, rnd, mu) whose masks are all gamma1
Barren(rhopp) == rhopp[1] = 0 /\ rhopp[2][1] = 0 /\ rhopp[2][2][2] = 0

\* ExpandMask(rho'', kappa): the first mask is that of rnd; those after it
\* are gamma1 for a barren seed and 0 for the others
ExpandMask(P, rhopp, kappa) ==
    LET rnd == rhopp[2][1]
        poly(l) == ConstPoly(IF Barren(rhopp) THEN P.Gamma1 ELSE 0)
    IN  IF kappa = 0 THEN FirstMask(P, rnd) ELSE Tabulate(P.L, poly)

\* The sum of the bytes of a vector packed by PackAt
RECURSIVE SumSeq(_, _)
SumSeq(s, n) == IF n = 0 THEN 0 ELSE s[n] + SumSeq(s, n - 1)

RECURSIVE SumOver(_, _)
SumOver(f, n) ==
    IF n = 0 THEN 0 ELSE SumSeq(f[n], Len(f[n])) + SumOver(f, n - 1)

RECURSIVE Checksum(_, _)
Checksum(e, i) ==
    IF i = 0 THEN 0 ELSE SumOver(e[i], Len(e[i])) + Checksum(e, i - 1)

\* The coefficients the challenge of the model takes: of absolute value at
\* most tau, so that c * s has norm at most beta for s of norm at most eta
ChallengeCoefficients(P) == <<1, Q - 1, P.TAU, Q - P.TAU>>

\* SampleInBall(c_tilde, tau): the challenge of a digest of (mu, W1Encode(w1))
sample_in_ball(P, c_tilde) ==
    LET n == c_tilde[1][2] + Checksum(c_tilde[2], Len(c_tilde[2]))
    IN  ConstPoly(ChallengeCoefficients(P)[(n % 4) + 1])

(***************************************************************************)
(* lib.rs: key generation, signing and verification                        *)
(***************************************************************************)
\* SigningKey::key_gen_internal
key_gen_internal(P, xi) ==
    LET rho == xi
        rhop == xi
        K == xi
        A == ExpandA(P, rho)
        s1 == ExpandS(rhop, P.Eta, 0, P.L)
        s2 == ExpandS(rhop, P.Eta, P.L, P.K)
        t == VecAdd(MatMulVec(A, s1), s2)
        t10 == vec_power2round(t)
        locals == [A |-> A, s1 |-> s1, s2 |-> s2, t |-> t, t1 |-> t10.r1,
                   t0 |-> t10.r0]
        vk == [rho |-> rho, t1 |-> locals.t1]
        tr == H(vk.rho, encode_t1(P, vk.t1))
    IN  [vk |-> vk,
         sk |-> [rho |-> rho, K |-> K, tr |-> tr, s1 |-> locals.s1,
                 s2 |-> locals.s2, t0 |-> locals.t0, A |-> locals.A]]

\* SigningKey::sign_internal, up to the loop
SignPrologue(P, sk, Mp, rnd) ==
    LET mu == H(sk.tr, Mp)
    IN  [A_hat |-> ExpandA(P, sk.rho), mu |-> mu,
         rhopp |-> H(sk.K, H(rnd, mu))]

\* verify with the norm test  sigma.z.infinity_norm() <= gamma1_threshold
verify_norm_at_most(P, vk, Mp, sigma) ==
    LET A_hat == ExpandA(P, vk.rho)
        t1_2d == ScalarMulVec(Pow2(SpecD), vk.t1)
        tr == H(vk.rho, encode_t1(P, vk.t1))
        mu == H(tr, Mp)
        c == sample_in_ball(P, sigma.c_tilde)
        Az == MatMulVec(A_hat, sigma.z)
        ct1 == PolyMulVec(c, t1_2d)
        wp_approx == VecSub(Az, ct1)
        w1p == Hint_use_hint(P, sigma.h, wp_approx)
        first == [mu |-> mu, c |-> c, wp_approx |-> wp_approx, w1p |-> w1p]
        cp_tilde == H(first.mu, encode_w1(P, first.w1p))
        gamma1_threshold == P.Gamma1 - BETA(P)
    IN  IF HintAborts(first.w1p)
        THEN [aborted |-> TRUE, w1p |-> first.w1p, cp_tilde |-> <<>>,
              result |-> FALSE]
        ELSE [aborted |-> FALSE, w1p |-> first.w1p, cp_tilde |-> cp_tilde,
              result |-> /\ vec_infinity_norm(sigma.z) <= gamma1_threshold
                         /\ sigma.c_tilde = cp_tilde]


\* VerificationKey::verify: its locals and its result
verify(P, vk, Mp, sigma) ==
    LET A_hat == ExpandA(P, vk.rho)
        t1_2d == ScalarMulVec(Pow2(SpecD), vk.t1)
        tr == H(vk.rho, encode_t1(P, vk.t1))
        mu == H(tr, Mp)
        c == sample_in_ball(P, sigma.c_tilde)
        Az == MatMulVec(A_hat, sigma.z)
        ct1 == PolyMulVec(c, t1_2d)
        wp_approx == VecSub(Az, ct1)
        w1p == Hint_use_hint(P, sigma.h, wp_approx)
        first == [mu |-> mu, c |-> c, wp_approx |-> wp_approx, w1p |-> w1p]
        cp_tilde == H(first.mu, encode_w1(P, first.w1p))
        gamma1_threshold == P.Gamma1 - BETA(P)
    IN  IF HintAborts(first.w1p)
        THEN [aborted |-> TRUE, w1p |-> first.w1p, cp_tilde |-> <<>>,
              result |-> FALSE]
        ELSE [aborted |-> FALSE, w1p |-> first.w1p, cp_tilde |-> cp_tilde,
              result |-> /\ vec_infinity_norm(sigma.z) < gamma1_threshold
                         /\ sigma.c_tilde = cp_tilde]

(***************************************************************************)
(* Signatures handed to verify that no signer made: z is one value in all  *)
(* coefficients, the hint is empty, one coefficient, OMEGA + 1             *)
(* coefficients or all of them, and c_tilde is the digest the verifier     *)
(* would compute were the challenge c.                                     *)
(***************************************************************************)
CraftedZ(P) == {0, P.Gamma1 - BETA(P) - 1, P.Gamma1 - BETA(P)}

CraftedHints(P) ==
    LET none(i, b) == FALSE
        one(i, b) == i = 1 /\ b = 2
        over(i, b) == i = 1 /\ b <= 2
        all(i, b) == TRUE
    IN  {Vec(P.K, none), Vec(P.K, one), Vec(P.K, over), Vec(P.K, all)}

CraftedSignature(P, vk, Mp, zv, h, cv) ==
    LET zpoly(l) == ConstPoly(zv)
        z == Tabulate(P.L, zpoly)
        mu == H(H(vk.rho, encode_t1(P, vk.t1)), Mp)
        ct1 == PolyMulVec(ConstPoly(cv), ScalarMulVec(Pow2(SpecD), vk.t1))
        w1p == Hint_use_hint(P, h, VecSub(MatMulVec(ExpandA(P, vk.rho), z), ct1))
        first == [z |-> z, mu |-> mu, w1p |-> w1p]
    IN  [z |-> first.z, h |-> h,
         c_tilde |-> H(first.mu, encode_w1(P, first.w1p))]

\* The vector v of polynomials packed with BitPack<a, b>, or Panicked
PackVector(P, a, b, v) ==
    LET row(i) == bit_pack(a, b, Coefficients(P, v[i]))
        rows == Tabulate(Len(v), row)
    IN  IF \E i \in 1..Len(rows) : rows[i] = Panicked THEN Panicked ELSE rows

\* The sections e unpacked with BitPack<a, b>, or Panicked
UnpackVector(a, b, e) ==
    LET row(i) == bit_unpack(a, b, e[i])
        rows == Tabulate(Len(e), row)
    IN  IF \E i \in 1..Len(rows) : rows[i] = Panicked THEN Panicked ELSE rows

\* SigningKeyParams::encode_s1, encode_s2 and encode_t0, and
\* VerificationKeyParams::encode_t1, on all the coefficients
encode_s1(P, s1) == PackVector(P, P.Eta, P.Eta, s1)
encode_s2(P, s2) == PackVector(P, P.Eta, P.Eta, s2)
encode_t0(P, t0) == PackVector(P, Pow2(SpecD - 1) - 1, Pow2(SpecD - 1), t0)
encode_t1_bytes(P, t1) ==
    LET row(i) == simple_bit_pack(BitlenQMinusD, Coefficients(P, t1[i]))
    IN  Tabulate(Len(t1), row)

\* The sections e unpacked with SimpleBitPack<D>
SimpleUnpackVector(D, e) ==
    LET row(i) == simple_bit_unpack(D, e[i]) IN Tabulate(Len(e), row)

\* RangeEncodedPolynomialSize<A, B>
RangeEncodedPolynomialSize(a, b) ==
    EncodedPolynomialSize(RangeEncodingBits(a, b))

\* MaskSamplingSize::unpack for G = gamma1, or Panicked
MaskSamplingSize_unpack(G, v) == bit_unpack(G - 1, G, v)

\* MaskSamplingSize::SampleSize
SampleSize(G) == RangeEncodedPolynomialSize(G - 1, G)

(***************************************************************************)
(* The output of the XOF handed to MaskSamplingSize::unpack: n bytes, the  *)
(* first one first, each next one step more modulo 256                      *)
(***************************************************************************)
MaxByteStep == 1

FirstBytes == {0, 1, 127, 128, 254, 255}

XofBytes(n, first, step) ==
    SubSeq([i \in 1..n |-> (first + (i - 1) * step) % 256], 1, n)

(***************************************************************************)
(* The codecs in use and the vectors they are run on                       *)
(***************************************************************************)
\* Vectors start at offsets 0..MaxOffset of their pattern
MaxOffset == 3

\* The widths D of SimpleBitPack<D>
SimpleWidths == {3, 4, 6, 8, 10, 13, 18, 20}

\* The ranges (a, b) of BitPack<A, B>
Ranges ==
    {<<S.Eta, S.Eta>> : S \in ParameterSets}
        \cup {<<Pow2(SpecD - 1) - 1, Pow2(SpecD - 1)>>}
        \cup {<<S.Gamma1 - 1, S.Gamma1>> : S \in ParameterSets}

Codecs ==
    {[kind |-> "simple", D |-> D, a |-> 0, b |-> Pow2(D) - 1] : D \in SimpleWidths}
        \cup {[kind |-> "range", D |-> RangeEncodingBits(r[1], r[2]),
               a |-> r[1], b |-> r[2]] : r \in Ranges}

Patterns == {"up", "down", "rep"}

\* A vector of NCoeff coefficients in [-a, b], as residues: rising from -a,
\* falling from b, or 0..7 repeated (as far as the range allows)
Pattern(a, b, kind, off) ==
    LET m == a + b + 1
        coeff(i) ==
            IF kind = "up" THEN Residue(((i - 1 + off) % m) - a)
            ELSE IF kind = "down" THEN Residue(b - ((i - 1 + off) % m))
            ELSE (i - 1) % (IF b < 8 THEN b + 1 ELSE 8)
    IN  Tabulate(NCoeff, coeff)


(***************************************************************************)
(* The sizes of the encodings, in bytes                                    *)
(***************************************************************************)
\* VectorEncodingSize::EncodedPolynomialVectorSize
EncodedPolynomialVectorSize(D, K) == EncodedPolynomialSize(D) * K

\* SigningKeyParams::S1Size, S2Size and T0Size
S1Size(S) ==
    EncodedPolynomialVectorSize(RangeEncodingBits(S.Eta, S.Eta), S.L)

S2Size(S) ==
    EncodedPolynomialVectorSize(RangeEncodingBits(S.Eta, S.Eta), S.K)

T0Size(S) ==
    EncodedPolynomialVectorSize(
        RangeEncodingBits(Pow2(SpecD - 1) - 1, Pow2(SpecD - 1)), S.K)

\* SigningKeySize leaving out the section of t0
SigningKeySizeShort(S) ==
    (128 + EncodedPolynomialVectorSize(RangeEncodingBits(S.Eta, S.Eta), S.L))
        + EncodedPolynomialVectorSize(RangeEncodingBits(S.Eta, S.Eta), S.K)

\* SigningKeyParams::SigningKeySize
SigningKeySize(S) ==
    ((128 + EncodedPolynomialVectorSize(RangeEncodingBits(S.Eta, S.Eta), S.L))
        + EncodedPolynomialVectorSize(RangeEncodingBits(S.Eta, S.Eta), S.K))
        + EncodedPolynomialVectorSize(
            RangeEncodingBits(Pow2(SpecD - 1) - 1, Pow2(SpecD - 1)), S.K)

\* VerificationKeyParams::T1Size and VerificationKeySize
T1Size(S) == EncodedPolynomialVectorSize(BitlenQMinusD, S.K)

VerificationKeySize(S) == 32 + T1Size(S)

\* SignatureParams::ZSize and HintSize
ZSize(S) == RangeEncodedPolynomialSize(S.Gamma1 - 1, S.Gamma1) * S.L

HintSize(S) == S.Omega + S.K

\* SignatureSize leaving out the section of the hint
SignatureSizeShort(S) == S.Lambda + ZSize(S)

\* SignatureParams::SignatureSize
SignatureSize(S) == (S.Lambda + ZSize(S)) + HintSize(S)

\* VectorEncodingSize::flatten: the number of bytes of the encoded
\* polynomials put end to end
RECURSIVE FlattenedLen(_)
FlattenedLen(polys) ==
    IF polys = <<>> THEN 0 ELSE Len(Head(polys)) + FlattenedLen(Tail(polys))

\* The number of bytes concat_sk puts together: rho and K of 32 bytes, tr
\* of 64, and the sections of s1, s2 and t0
concat_sk_len(s1, s2, t0) ==
    32 + 32 + 64 + FlattenedLen(s1) + FlattenedLen(s2) + FlattenedLen(t0)

\* The number of bytes concat_vk puts together: rho of 32 bytes and the
\* section of t1
concat_vk_len(t1) == 32 + FlattenedLen(t1)

\* The number of bytes concat_sig puts together: c_tilde, an
\* EncodedCTilde of Lambda bytes, the section of z, and h, an EncodedHint
\* of HintSize bytes
concat_sig_len(S, z) == S.Lambda + FlattenedLen(z) + HintSize(S)

(***************************************************************************)
(* The field elements the primitives of algebra.rs and hint.rs are run on  *)
(***************************************************************************)
\* Elements are taken up to EdgeSpread on either side of an edge
EdgeSpread == 1

\* The residues within EdgeSpread of x
Around(x) == {Residue(x + e) : e \in (0 - EdgeSpread)..EdgeSpread}

\* The edges of decompose, power2round and the reductions: the multiples of
\* gamma2 / 2 (every other one a multiple of gamma2, every fourth one of 2 *
\* gamma2) up to q - 1, some multiples of 2^(d-1), and the half of q
Edges(S) ==
    {k * (S.Gamma2 \div 2) : k \in 0..((Q - 1) \div (S.Gamma2 \div 2))}
        \cup {k * Pow2(SpecD - 1) :
                 k \in {1, 2, 3, 1022, 1023, 1024, 2043, 2044, 2045}}
        \cup {Q \div 2}

\* The values r
ElementsR(S) == UNION {Around(x) : x \in Edges(S)}

\* The values z, of infinity norm at most gamma2
ElementsZ(S) ==
    {0, 1, Q - 1, S.Gamma2 \div 2, Q - (S.Gamma2 \div 2), S.Gamma2 - 1,
     S.Gamma2, Q - S.Gamma2}

\* The index tags kappa + l of the polynomials of ExpandMask(rho'', kappa)
MaskTags(S, k) == {k + l : l \in 0..(S.L - 1)}

\* LE16: the two bytes of a tag, as the value they hold
LE16(t) == t % Pow2(16)

\* The moduli the parameter set S reduces by: 2^d in power2round, 2 * gamma2
\* in high_bits and low_bits, gamma2 in the hints, q in sign_internal
ModuliOf(S) == {Pow2(SpecD), 2 * S.Gamma2, S.Gamma2, Q}

(***************************************************************************)
(* The state of the program                                                *)
(***************************************************************************)
VARIABLES
    pc,         \* where the program is
    P,          \* the parameter set
    vk, sk,     \* the key pair of key_gen_internal
    Mp, rnd,    \* the arguments of sign_internal
    pre,        \* the locals of sign_internal set before its loop
    kappa,      \* the loop variable of sign_internal
    iters,      \* the iterations of the loop begun so far
    sigma,      \* the signature returned, or handed to verify
    accepted,   \* the locals of the iteration that returned
    verified,   \* the outcome of verify
    sk_enc,     \* the sections of SigningKey::encode and VerificationKey::encode
    sk_dec,     \* those sections unpacked
    codec,      \* the codec run
    coeffs,     \* the vector it is run on
    packed,     \* the bytes packed
    unpacked,   \* the bytes unpacked
    call,       \* the arguments of a primitive of algebra.rs or hint.rs
    ret         \* what it returned

vars == <<pc, P, vk, sk, Mp, rnd, pre, kappa, iters, sigma, accepted, verified,
          sk_enc, sk_dec, codec, coeffs, packed, unpacked, call, ret>>

keyVars == <<P, vk, sk>>
signVars == <<Mp, rnd, pre, kappa, iters, sigma, accepted, verified>>
keyCodecVars == <<sk_enc, sk_dec>>
codecVars == <<codec, coeffs, packed, unpacked>>
algebraVars == <<call, ret>>

None == <<>>

\* No iteration of the loop has returned
NotAccepted == [accepted |-> FALSE, w1 |-> <<>>, r0_norm |-> 0, ct0_norm |-> 0]

Init ==
    /\ pc = "start"
    /\ P \in ParameterSets
    /\ vk = None /\ sk = None
    /\ Mp = 0 /\ rnd = 0 /\ pre = None /\ kappa = 0 /\ iters = 0
    /\ sigma = None /\ accepted = NotAccepted /\ verified = None
    /\ sk_enc = None /\ sk_dec = None
    /\ codec = None /\ coeffs = None /\ packed = None /\ unpacked = None
    /\ call = None /\ ret = None

\* SigningKey::key_gen_internal
KeyGen ==
    /\ pc = "start"
    /\ \E xi \in 0..MaxSeed :
          LET keys == key_gen_internal(P, xi)
          IN  vk' = keys.vk /\ sk' = keys.sk
    /\ pc' = "keyed"
    /\ UNCHANGED <<P, signVars, keyCodecVars, codecVars, algebraVars>>

\* SigningKey::sign_internal, up to the loop
SignStart ==
    /\ pc = "keyed"
    /\ \E m \in 0..MaxMsg, r \in 0..MaxRnd :
          Mp' = m /\ rnd' = r /\ pre' = SignPrologue(P, sk, m, r)
    /\ kappa' = 0 /\ iters' = 0
    /\ pc' = "signing"
    /\ UNCHANGED <<keyVars, sigma, accepted, verified, keyCodecVars, codecVars, algebraVars>>

\* A continue that keeps the state of the loop in the field K of the key
SignContinueOnKey ==
    /\ pc' = "signing"
    /\ kappa' = kappa + P.L
    /\ sk' = [sk EXCEPT !.K = sk.K + kappa + P.L]
    /\ UNCHANGED <<sigma, accepted, P, vk>>

\* The continue of the loop of sign_internal; self is borrowed immutably
SignContinue ==
    /\ pc' = "signing"
    /\ kappa' = kappa + P.L
    /\ UNCHANGED <<sigma, accepted, keyVars>>

\* One iteration of for kappa in (0..u16::MAX).step_by(P::L::USIZE), each
\* local bound to its value in turn (w.high_bits() and low_bits() decompose
\* by 2 * gamma2)
SignLoop ==
    /\ pc = "signing"
    /\ kappa < U16Max
    /\ \E y \in {ExpandMask(P, pre.rhopp, kappa)} :
       \E w \in {MatMulVec(pre.A_hat, y)} :
       \E w1 \in {vec_high_bits(2 * P.Gamma2, w)} :
       \E c_tilde \in {H(pre.mu, encode_w1(P, w1))} :
       \E c \in {sample_in_ball(P, c_tilde)} :
       \E cs1 \in {PolyMulVec(c, sk.s1)} :
       \E cs2 \in {PolyMulVec(c, sk.s2)} :
       \E z \in {VecAdd(y, cs1)} :
       \E r0 \in {vec_low_bits(2 * P.Gamma2, VecSub(w, cs2))} :
       \E gamma1_threshold \in {P.Gamma1 - BETA(P)} :
       \E gamma2_threshold \in {P.Gamma2 - BETA(P)} :
          IF \/ vec_infinity_norm(z) > gamma1_threshold
             \/ vec_infinity_norm(r0) > gamma2_threshold
          THEN SignContinue
          ELSE \E ct0 \in {PolyMulVec(c, sk.t0)} :
               \E h \in {Hint_new(P, VecNeg(ct0), VecAdd(VecSub(w, cs2), ct0))} :
                  IF \/ vec_infinity_norm(ct0) > P.Gamma2
                     \/ hamming_weight(P, h) > P.Omega
                  THEN SignContinue
                  ELSE /\ pc' = "signed"
                       /\ sigma' = [c_tilde |-> c_tilde,
                                    z |-> vec_mod_plus_minus(Q, z), h |-> h]
                       /\ accepted' = [accepted |-> TRUE, w1 |-> w1,
                                       r0_norm |-> vec_infinity_norm(r0),
                                       ct0_norm |-> vec_infinity_norm(ct0)]
                       /\ kappa' = kappa
                       /\ UNCHANGED keyVars
    /\ iters' = iters + 1
    /\ UNCHANGED <<Mp, rnd, pre, verified, keyCodecVars, codecVars, algebraVars>>

\* The loop ran out: panic!("Rejection sampling failed to find a valid signature")
SignExhausted ==
    /\ pc = "signing"
    /\ kappa >= U16Max
    /\ pc' = "panicked"
    /\ UNCHANGED <<keyVars, signVars, keyCodecVars, codecVars, algebraVars>>

\* VerificationKey::verify on the signature sign_internal returned
VerifySigned ==
    /\ pc = "signed"
    /\ verified' = verify(P, vk, Mp, sigma)
    /\ pc' = "verified"
    /\ UNCHANGED <<keyVars, Mp, rnd, pre, kappa, iters, sigma, accepted,
                   keyCodecVars, codecVars, algebraVars>>

\* VerificationKey::verify on a crafted signature
VerifyCrafted ==
    /\ pc = "keyed"
    /\ \E m \in 0..MaxMsg, zv \in CraftedZ(P), h \in CraftedHints(P),
          i \in 1..4 :
          /\ Mp' = m
          /\ sigma' = CraftedSignature(P, vk, m, zv, h,
                                       ChallengeCoefficients(P)[i])
          /\ verified' = verify(P, vk, m, sigma')
    /\ pc' = "verified"
    /\ UNCHANGED <<keyVars, rnd, pre, kappa, iters, accepted, keyCodecVars,
                   codecVars, algebraVars>>

\* SigningKey::encode and VerificationKey::encode
EncodeKey ==
    /\ pc = "keyed"
    /\ sk_enc' = [s1 |-> encode_s1(P, sk.s1), s2 |-> encode_s2(P, sk.s2),
                  t0 |-> encode_t0(P, sk.t0), t1 |-> encode_t1_bytes(P, vk.t1)]
    /\ pc' = "encoded"
    /\ UNCHANGED <<keyVars, signVars, sk_dec, codecVars, algebraVars>>

\* The sections of the encoded keys unpacked by the codecs that packed them
DecodeKey ==
    /\ pc = "encoded"
    /\ sk_dec' = [s1 |-> UnpackVector(P.Eta, P.Eta, sk_enc.s1),
                  s2 |-> UnpackVector(P.Eta, P.Eta, sk_enc.s2),
                  t0 |-> UnpackVector(Pow2(SpecD - 1) - 1, Pow2(SpecD - 1),
                                      sk_enc.t0),
                  t1 |-> SimpleUnpackVector(BitlenQMinusD, sk_enc.t1)]
    /\ pc' = IF Panicked \in {sk_dec'.s1, sk_dec'.s2, sk_dec'.t0}
             THEN "panicked_decoding" ELSE "decoded"
    /\ UNCHANGED <<keyVars, signVars, sk_enc, codecVars, algebraVars>>

(***************************************************************************)
(* The codecs of encode.rs, each run on its own                            *)
(***************************************************************************)
InitCodec ==
    /\ pc = "codec"
    /\ P = MlDsa44
    /\ vk = None /\ sk = None
    /\ Mp = 0 /\ rnd = 0 /\ pre = None /\ kappa = 0 /\ iters = 0
    /\ sigma = None /\ accepted = NotAccepted /\ verified = None
    /\ sk_enc = None /\ sk_dec = None
    /\ codec \in Codecs
    /\ \E kind \in Patterns, off \in 0..MaxOffset :
          coeffs = Pattern(codec.a, codec.b, kind, off)
    /\ packed = None /\ unpacked = None
    /\ call = None /\ ret = None

\* SimpleBitPack::pack
SimplePack ==
    /\ pc = "codec"
    /\ codec.kind = "simple"
    /\ packed' = simple_bit_pack(codec.D, coeffs)
    /\ pc' = "packed"
    /\ UNCHANGED <<keyVars, signVars, keyCodecVars, codec, coeffs, unpacked, algebraVars>>

\* SimpleBitPack::unpack
SimpleUnpack ==
    /\ pc = "packed"
    /\ codec.kind = "simple"
    /\ unpacked' = simple_bit_unpack(codec.D, packed)
    /\ pc' = "unpacked"
    /\ UNCHANGED <<keyVars, signVars, keyCodecVars, codec, coeffs, packed, algebraVars>>

\* BitPack::pack
RangePack ==
    /\ pc = "codec"
    /\ codec.kind = "range"
    /\ packed' = bit_pack(codec.a, codec.b, coeffs)
    /\ pc' = IF packed' = Panicked THEN "pack_panicked" ELSE "packed"
    /\ UNCHANGED <<keyVars, signVars, keyCodecVars, codec, coeffs, unpacked, algebraVars>>

\* BitPack::unpack
RangeUnpack ==
    /\ pc = "packed"
    /\ codec.kind = "range"
    /\ unpacked' = bit_unpack(codec.a, codec.b, packed)
    /\ pc' = IF unpacked' = Panicked THEN "unpack_panicked" ELSE "unpacked"
    /\ UNCHANGED <<keyVars, signVars, keyCodecVars, codec, coeffs, packed, algebraVars>>

\* MaskSamplingSize::unpack on the bytes squeezed from the XOF
MaskUnpack ==
    /\ pc = "codec"
    /\ codec.kind = "range"
    /\ \E S \in ParameterSets : codec.b = S.Gamma1
    /\ \E first \in FirstBytes, step \in 0..MaxByteStep :
          /\ packed' = XofBytes(SampleSize(codec.b), first, step)
          /\ unpacked' = MaskSamplingSize_unpack(codec.b, packed')
    /\ pc' = IF unpacked' = Panicked THEN "sample_panicked" ELSE "sampled"
    /\ UNCHANGED <<keyVars, signVars, keyCodecVars, codec, coeffs, algebraVars>>

NextCodec ==
    \/ SimplePack
    \/ SimpleUnpack
    \/ RangePack
    \/ RangeUnpack
    \/ MaskUnpack

SpecCodec == InitCodec /\ [][NextCodec]_vars

Next ==
    \/ KeyGen
    \/ SignStart
    \/ SignLoop
    \/ SignExhausted
    \/ VerifySigned
    \/ VerifyCrafted
    \/ EncodeKey
    \/ DecodeKey

Spec == Init /\ [][Next]_vars

(***************************************************************************)
(* The primitives of algebra.rs and hint.rs, each run on its own           *)
(***************************************************************************)
InitAlgebra ==
    /\ pc = "algebra"
    /\ P \in ParameterSets
    /\ vk = None /\ sk = None
    /\ Mp = 0 /\ rnd = 0 /\ pre = None /\ kappa = 0 /\ iters = 0
    /\ sigma = None /\ accepted = NotAccepted /\ verified = None
    /\ sk_enc = None /\ sk_dec = None
    /\ codec = None /\ coeffs = None /\ packed = None /\ unpacked = None
    /\ \E r \in ElementsR(P), z \in ElementsZ(P) : call = [r |-> r, z |-> z]
    /\ ret = None

\* Decompose::decompose::<TwoGamma2>, as lib.rs reaches it through
\* high_bits() and low_bits()
Decompose ==
    /\ pc = "algebra"
    /\ pc' = "decomposed"
    /\ ret' = decompose(2 * P.Gamma2, call.r)
    /\ UNCHANGED <<keyVars, signVars, keyCodecVars, codecVars, call>>

\* AlgebraExt::power2round
Power2Round ==
    /\ pc = "algebra"
    /\ pc' = "rounded"
    /\ ret' = power2round(call.r)
    /\ UNCHANGED <<keyVars, signVars, keyCodecVars, codecVars, call>>

\* make_hint::<P::Gamma2>(z, r), as Hint::new calls it
MakeHint ==
    /\ pc = "algebra"
    /\ pc' = "hinted"
    /\ ret' = [h |-> make_hint(P.Gamma2, call.z, call.r)]
    /\ UNCHANGED <<keyVars, signVars, keyCodecVars, codecVars, call>>

\* use_hint::<P::Gamma2>(h, r + z) with the hint make_hint returned, as
\* Hint::use_hint calls it
UseMadeHint ==
    /\ pc = "hinted"
    /\ pc' = "recovered"
    /\ ret' = [h |-> ret.h,
               w1 |-> use_hint(P.Gamma2, ret.h, FAdd(call.r, call.z))]
    /\ UNCHANGED <<keyVars, signVars, keyCodecVars, codecVars, call>>

\* use_hint::<P::Gamma2>(h, r) with either hint bit; d is the (r1, r0) it
\* computes on its way
UseHint ==
    /\ pc = "algebra"
    /\ pc' = "used"
    /\ \E h \in BOOLEAN :
          ret' = [h |-> h, w1 |-> use_hint(P.Gamma2, h, call.r),
                  d |-> decompose(P.Gamma2, call.r)]
    /\ UNCHANGED <<keyVars, signVars, keyCodecVars, codecVars, call>>

\* AlgebraExt::mod_plus_minus::<M>
ModPlusMinus ==
    /\ pc = "algebra"
    /\ pc' = "centred"
    /\ \E M \in ModuliOf(P) :
          ret' = [M |-> M, v |-> mod_plus_minus(M, call.r)]
    /\ UNCHANGED <<keyVars, signVars, keyCodecVars, codecVars, call>>

\* BarrettReduce::reduce for the modulus M; quotient is its local
BarrettReduce ==
    /\ pc = "algebra"
    /\ pc' = "reduced"
    /\ \E M \in ModuliOf(P) :
          ret' = [M |-> M,
                  quotient |-> MulShr(call.r, MULTIPLIER[M], SHIFT[M]),
                  v |-> Reduce(M, call.r)]
    /\ UNCHANGED <<keyVars, signVars, keyCodecVars, codecVars, call>>

NextAlgebra ==
    \/ BarrettReduce
    \/ ModPlusMinus
    \/ Decompose
    \/ Power2Round
    \/ MakeHint
    \/ UseMadeHint
    \/ UseHint

SpecAlgebra == InitAlgebra /\ [][NextAlgebra]_vars

(***************************************************************************)
(* Properties of signing and verification                                  *)
(***************************************************************************)
\* C1: whenever sign_internal returns a signature for a key pair of
\* key_gen_internal, verify of that signature under the same message returns
\* true, and the w1 verify reconstructs with use_hint is the signer's w1.
SignedThenVerified ==
    (pc = "verified" /\ accepted.accepted) =>
        /\ verified.result
        /\ verified.w1p = accepted.w1

\* C2: every signature sign_internal returns has infinity_norm(z) strictly
\* below gamma1 - beta and a hint of Hamming weight at most omega.
SignatureWithinBounds ==
    pc = "signed" =>
        /\ vec_infinity_norm(sigma.z) < P.Gamma1 - BETA(P)
        /\ hamming_weight(P, sigma.h) <= P.Omega

\* C3: verify returns false for every signature whose hint has Hamming weight
\* greater than omega.
HeavyHintRejected ==
    (pc = "verified" /\ hamming_weight(P, sigma.h) > P.Omega) =>
        ~verified.result

\* C4: verify returns false whenever infinity_norm(z) >= gamma1 - beta, false
\* whenever the challenge hash recomputed from mu and the encoding of
\* use_hint(h, w'_approx) differs from c_tilde, and true only if both tests
\* pass.
VerifyTests ==
    pc = "verified" =>
        LET norm == vec_infinity_norm(sigma.z)
            mu == H(H(vk.rho, encode_t1(P, vk.t1)), Mp)
            digest == H(mu, encode_w1(P, verified.w1p))
        IN  /\ norm >= P.Gamma1 - BETA(P) => ~verified.result
            /\ digest # sigma.c_tilde => ~verified.result
            /\ verified.result =>
                  norm < P.Gamma1 - BETA(P) /\ digest = sigma.c_tilde

\* verify has refused a signature whose challenge hash matches and whose z
\* has norm exactly gamma1 - beta
VerifyTestsWitness ==
    /\ pc = "verified"
    /\ vec_infinity_norm(sigma.z) = P.Gamma1 - BETA(P)
    /\ sigma.c_tilde = verified.cp_tilde
    /\ ~verified.result

\* C5: when the rejection loop of sign_internal has run through every kappa
\* without accepting, sign_internal returns to its caller: it does not panic.
ExhaustionReturns == pc # "panicked"

\* C6: the rejection loop visits kappa = 0, L, 2L, ... in increasing order and
\* executes at most 2^16 / L iterations.
LoopWithinBound ==
    pc \in {"signing", "signed", "panicked"} =>
        /\ kappa = P.L * (IF pc = "signed" THEN iters - 1 ELSE iters)
        /\ iters * P.L <= Pow2(16)

(***************************************************************************)
(* Properties of the codecs                                                *)
(***************************************************************************)
\* C7: for every range (a, b) in use and every vector of coefficients in
\* [-a, b], endpoints included, bit_unpack(bit_pack(v)) = v without aborting,
\* and the encoding is 32 * bitlen(a + b) bytes long.
RangeRoundTrip ==
    codec.kind = "range" =>
        /\ pc \notin {"pack_panicked", "unpack_panicked"}
        /\ pc \in {"packed", "unpacked"} =>
              Len(packed) = 32 * Bitlen(codec.a + codec.b)
        /\ pc = "unpacked" => unpacked = coeffs

\* C8: for every width D in use and every vector of values in [0, 2^D - 1],
\* simple_bit_unpack(simple_bit_pack(v)) = v, and the encoding is 32 * D bytes
\* long.
SimpleRoundTrip ==
    codec.kind = "simple" =>
        /\ pc \in {"packed", "unpacked"} => Len(packed) = 32 * codec.D
        /\ pc = "unpacked" => unpacked = coeffs

\* The coefficients 0, 1, ..., 255 have gone through the codec of width 13,
\* by way of 416 bytes
SimpleRoundTripWitness ==
    /\ pc = "unpacked"
    /\ codec.kind = "simple" /\ codec.D = 13
    /\ \A i \in 1..NCoeff : coeffs[i] = i - 1
    /\ Len(packed) = 416
    /\ unpacked = coeffs

\* C9: simple_bit_pack at width D produces the little-endian bit stream of its
\* input: bit (n mod 8) of byte (n div 8) is bit (n mod D) of value (n div D),
\* for every n in [0, 256 * D); at D = 10 the values 0..7 repeated give the
\* bytes 00 04 20 c0 00 04 14 60 c0 01 repeated.
SimplePackBitStream ==
    (codec.kind = "simple" /\ pc \in {"packed", "unpacked"}) =>
        /\ \A n \in 0..(NCoeff * codec.D - 1) :
              BitAt(packed[(n \div 8) + 1], n % 8)
                  = BitAt(coeffs[(n \div codec.D) + 1], n % codec.D)
        /\ (codec.D = 10 /\ \A i \in 1..NCoeff : coeffs[i] = (i - 1) % 8) =>
              \A k \in 1..Len(packed) :
                  packed[k] = <<0, 4, 32, 192, 0, 4, 20, 96, 192, 1>>[((k - 1) % 10) + 1]

\* The values 0..7 repeated have been packed at width 10
SimplePackBitStreamWitness ==
    /\ pc = "packed"
    /\ codec.kind = "simple" /\ codec.D = 10
    /\ \A i \in 1..NCoeff : coeffs[i] = (i - 1) % 8
    /\ SubSeq(packed, 1, 10) = <<0, 4, 32, 192, 0, 4, 20, 96, 192, 1>>

\* C10: for every key pair of key_gen_internal, unpacking the s1, s2, t0 and
\* t1 sections of the encoded key with the codecs that packed them returns
\* s1, s2, t0 and t1, without aborting.
KeyRoundTrip ==
    /\ pc # "panicked_decoding"
    /\ pc = "decoded" =>
          /\ \A i \in 1..P.L : \A j \in 1..NCoeff :
                sk_dec.s1[i][j] = Coefficients(P, sk.s1[i])[j]
          /\ \A i \in 1..P.K : \A j \in 1..NCoeff :
                /\ sk_dec.s2[i][j] = Coefficients(P, sk.s2[i])[j]
                /\ sk_dec.t0[i][j] = Coefficients(P, sk.t0[i])[j]
                /\ sk_dec.t1[i][j] = Coefficients(P, vk.t1[i])[j]
(***************************************************************************)
(* Properties of the primitives of algebra.rs and hint.rs                  *)
(***************************************************************************)
\* C11: for the modulus 2 * gamma2 of every parameter set and every r,
\* decompose(r) = (r1, r0) has r = r1 * 2 * gamma2 + r0 modulo q, r0 of
\* centred absolute value at most gamma2, and r1 in [0, (q-1)/(2*gamma2)).
DecomposeSound ==
    pc = "decomposed" =>
        /\ Residue(ret[1] * 2 * P.Gamma2 + ret[2]) = call.r
        /\ (ret[2] <= P.Gamma2 \/ ret[2] >= Q - P.Gamma2)
        /\ ret[1] \in 0..((Q - 1) \div (2 * P.Gamma2) - 1)

\* decompose has run on an r of the topmost interval, where r - r0 = q - 1
DecomposeSoundWitness ==
    /\ pc = "decomposed"
    /\ call.r > Q - 1 - P.Gamma2
    /\ ret[1] = 0
    /\ ret[2] > Q - P.Gamma2
\* C12: power2round(r) = (r1, r0) has r = r1 * 2^13 + r0 modulo q and r0 of
\* centred absolute value at most 2^12; r minus the centred r0 is a multiple
\* of 2^13 within [0, q), so the subtraction in the field does not wrap and
\* the shift is an exact division.
Power2RoundSound ==
    pc = "rounded" =>
        /\ Residue(ret[1] * Pow2(SpecD) + ret[2]) = call.r
        /\ (ret[2] <= Pow2(SpecD - 1) \/ ret[2] >= Q - Pow2(SpecD - 1))
        /\ \E c0 \in {ret[2], ret[2] - Q} :
              /\ c0 \in (0 - Pow2(SpecD - 1))..Pow2(SpecD - 1)
              /\ call.r - c0 \in 0..(Q - 1)
              /\ ret[1] * Pow2(SpecD) = call.r - c0

\* power2round has run on an r it rounds up, to the topmost multiple of 2^13
Power2RoundSoundWitness ==
    /\ pc = "rounded"
    /\ ret[2] > Q - Pow2(SpecD - 1)
    /\ ret[1] * Pow2(SpecD) = Q - 1
\* C13: for every r and every z of infinity norm at most gamma2, use_hint of
\* the hint make_hint(z, r) on r + z is HighBits(r + z), the high part of the
\* decomposition of r + z by 2 * gamma2, for both values of gamma2.
HintRecoversHighBits ==
    (pc = "recovered" /\ infinity_norm(call.z) <= P.Gamma2) =>
        ret.w1 = high_bits(2 * P.Gamma2, FAdd(call.r, call.z))
(***************************************************************************)
(* Properties of the sizes of the encodings                                *)
(***************************************************************************)
\* C14: the encoded signing key has 128 + 32 * bitlen(2 * eta) * (K + L) +
\* 32 * 13 * K bytes and the encoded verification key 32 + 32 *
\* (bitlen(q - 1) - 13) * K = 32 + 320 * K bytes; SigningKeySize and
\* VerificationKeySize are these numbers, and are the sums of the lengths of
\* the sections the encodings are made of.
KeySizes ==
    pc = "encoded" =>
        /\ SigningKeySize(P) =
              128 + 32 * Bitlen(2 * P.Eta) * (P.K + P.L) + 32 * 13 * P.K
        /\ VerificationKeySize(P) = 32 + 32 * (Bitlen(Q - 1) - 13) * P.K
        /\ VerificationKeySize(P) = 32 + 320 * P.K
        /\ SigningKeySize(P) = 128 + S1Size(P) + S2Size(P) + T0Size(P)
        /\ concat_sk_len(sk_enc.s1, sk_enc.s2, sk_enc.t0) = SigningKeySize(P)
        /\ concat_vk_len(sk_enc.t1) = VerificationKeySize(P)

\* The keys of ML-DSA-65 have been encoded, in 4032 and 1952 bytes
KeySizesWitness ==
    /\ pc = "encoded"
    /\ P.name = "MlDsa65"
    /\ concat_sk_len(sk_enc.s1, sk_enc.s2, sk_enc.t0) = 4032
    /\ concat_vk_len(sk_enc.t1) = 1952
\* The section z of a signature of the parameter set S: L polynomials, each
\* encoded as the polynomial the codec packed
EncodedZ(S) == SubSeq([l \in 1..S.L |-> packed], 1, S.L)

\* C15: for each parameter set the encoded signature has lambda + 32 *
\* bitlen(2 * gamma1) * L + omega + K bytes, its section z being L polynomials
\* of 32 * bitlen(2 * gamma1) bytes each, and this is SignatureSize.
SignatureSizeAsStated ==
    \A S \in ParameterSets :
        (pc = "packed" /\ codec.a = S.Gamma1 - 1 /\ codec.b = S.Gamma1) =>
            /\ Len(packed) = 32 * Bitlen(2 * S.Gamma1)
            /\ concat_sig_len(S, EncodedZ(S)) =
                  S.Lambda + 32 * Bitlen(2 * S.Gamma1) * S.L + S.Omega + S.K
            /\ SignatureSize(S) = concat_sig_len(S, EncodedZ(S))

\* C15, amended: the width of the section z is bitlen(2 * gamma1 - 1), the
\* width of BitPack at the range (gamma1 - 1, gamma1), which is 18 or 20.
SignatureSizeAmended ==
    \A S \in ParameterSets :
        (pc = "packed" /\ codec.a = S.Gamma1 - 1 /\ codec.b = S.Gamma1) =>
            /\ Len(packed) = 32 * Bitlen(2 * S.Gamma1 - 1)
            /\ Bitlen(2 * S.Gamma1 - 1) \in {18, 20}
            /\ concat_sig_len(S, EncodedZ(S)) =
                  S.Lambda + 32 * Bitlen(2 * S.Gamma1 - 1) * S.L
                      + S.Omega + S.K
            /\ SignatureSize(S) = concat_sig_len(S, EncodedZ(S))

\* BitPack at the range of gamma1 = 2^17 has packed a polynomial, in 576
\* bytes, a signature of ML-DSA-44 taking 2420
SignatureSizeWitness ==
    /\ pc = "packed"
    /\ codec.a = MlDsa44.Gamma1 - 1 /\ codec.b = MlDsa44.Gamma1
    /\ Len(packed) = 576
    /\ concat_sig_len(MlDsa44, EncodedZ(MlDsa44)) = 2420

(***************************************************************************)
(* Properties of the sampling of the mask                                  *)
(***************************************************************************)
\* C16: for gamma1 = 2^17 and gamma1 = 2^19 and every string of bytes of the
\* XOF, MaskSamplingSize::unpack, BitPack at the range (gamma1 - 1, gamma1),
\* returns without aborting 256 coefficients, each in (-gamma1, gamma1].
MaskDecodes ==
    /\ pc # "sample_panicked"
    /\ pc = "sampled" =>
          /\ Len(unpacked) = NCoeff
          /\ \A i \in 1..Len(unpacked) :
                \/ unpacked[i] <= codec.b
                \/ unpacked[i] > Q - codec.b
RejectedAtThresholds ==
    pc = "signed" =>
        /\ accepted.r0_norm < P.Gamma2 - BETA(P)
        /\ accepted.ct0_norm < P.Gamma2
(***************************************************************************)
(* Properties of the hints                                                 *)
(***************************************************************************)
\* C19: make_hint and use_hint, as Hint::new and Hint::use_hint instantiate
\* them, decompose by 2 * gamma2: the (r1, r0) use_hint computes is the
\* decomposition of r by 2 * gamma2, and make_hint(z, r) is true exactly when
\* the high bits by 2 * gamma2 of r and of r + z differ.
HintsDecomposeByTwoGamma2 ==
    /\ pc = "used" => ret.d = decompose(2 * P.Gamma2, call.r)
    /\ pc = "hinted" =>
          ret.h = (high_bits(2 * P.Gamma2, call.r)
                      # high_bits(2 * P.Gamma2, FAdd(call.r, call.z)))

\* C20: for either h and every r on which use_hint returns, the result is in
\* [0, m) with m = (q - 1) / (2 * gamma2): with (r1, r0) the decomposition
\* of r by 2 * gamma2, it is r1 when h = 0, (r1 + 1) mod m when h = 1 and r0
\* is positive, (r1 + m - 1) mod m when h = 1 and r0 is not; so it fits the
\* width of W1Encode, 6 bits for gamma2 = (q - 1) / 88 and 4 bits for gamma2
\* = (q - 1) / 32.
UseHintWithinRange ==
    (pc = "used" /\ ret.w1 # Unreachable) =>
        \E m \in {(Q - 1) \div (2 * P.Gamma2)} :
        \E d \in {decompose(2 * P.Gamma2, call.r)} :
            /\ ret.w1 \in 0..(m - 1)
            /\ ret.w1 < Pow2(P.W1Bits)
            /\ P.W1Bits = (IF P.Gamma2 = (Q - 1) \div 88 THEN 6 ELSE 4)
            /\ ret.w1 = IF ~ret.h THEN d[1]
                        ELSE IF d[2] \in 1..P.Gamma2 THEN (d[1] + 1) % m
                        ELSE (d[1] + m - 1) % m
\* C21: use_hint never reaches its unreachable!() branch: for every r, those
\* on which decompose takes the branch that returns r0 - 1 included, the r0
\* it computes is stored as a value <= gamma2 or > q - gamma2, so use_hint
\* with h = 1 returns a value.
UseHintReturns ==
    (pc = "used" /\ ret.h) =>
        /\ ret.w1 # Unreachable
        /\ ret.w1 \in 0..(Q - 1)
        /\ (ret.d[2] <= P.Gamma2 \/ ret.d[2] > Q - P.Gamma2)

\* use_hint has returned for h = 1 on an r of the topmost interval, where
\* decompose returns r0 - 1, a negative r0
UseHintReturnsWitness ==
    /\ pc = "used" /\ ret.h
    /\ ret.d[1] = 0
    /\ call.r > Q - 1 - P.Gamma2
    /\ ret.d[2] > Q - P.Gamma2
    /\ ret.w1 = (Q - 1) \div (2 * P.Gamma2) - 1
\* C22: for every t the pair (t1, t0) = power2round(t) that key_gen_internal
\* stores in the keys has t1 in [0, 2^10) and the centred t0 in (-2^12, 2^12]:
\* t1 fits SimpleBitPack at 10 bits and t0 is in the range [-(2^12 - 1),
\* 2^12] that BitPack at 13 bits accepts.
RoundedWithinWidths ==
    pc = "rounded" =>
        /\ ret[1] \in 0..(Pow2(10) - 1)
        /\ ret[1] < Pow2(BitlenQMinusD)
        /\ (ret[2] <= Pow2(12) \/ ret[2] > Q - Pow2(12))
        /\ (ret[2] <= Pow2(SpecD - 1)
               \/ ret[2] >= FNeg(Pow2(SpecD - 1) - 1))

\* power2round has returned the largest t1 with the lowest t0
RoundedWithinWidthsWitness ==
    /\ pc = "rounded"
    /\ ret[1] = Pow2(10) - 1
    /\ ret[2] = Q - (Pow2(12) - 1)
(***************************************************************************)
(* Properties of the reductions                                            *)
(***************************************************************************)
\* C23: for every modulus M in use (2^13, 2 * gamma2 for both gamma2, q) and
\* every x in [0, q), mod_plus_minus::<M>(x) is the canonical residue modulo
\* q of the integer r with r = x modulo M and -floor(M/2) < r <= floor(M/2).
CentredAsStated ==
    (pc = "centred" /\ ret.M \in {Pow2(SpecD), 2 * P.Gamma2, Q}) =>
        \E r \in {call.r % ret.M, (call.r % ret.M) - ret.M} :
            /\ 0 - (ret.M \div 2) < r
            /\ r <= ret.M \div 2
            /\ ret.v = Residue(r)

\* C23, amended: the lower end of the range is -ceil(M/2), which differs
\* from -floor(M/2) for the odd modulus q.
CentredAmended ==
    (pc = "centred" /\ ret.M \in {Pow2(SpecD), 2 * P.Gamma2, Q}) =>
        \E r \in {call.r % ret.M, (call.r % ret.M) - ret.M} :
            /\ 0 - ((ret.M + 1) \div 2) < r
            /\ r <= ret.M \div 2
            /\ ret.v = Residue(r)

\* mod_plus_minus::<Q> has run on (q + 1) / 2, which it sends to -floor(q/2)
CentredWitness ==
    /\ pc = "centred"
    /\ ret.M = Q
    /\ call.r = (Q + 1) \div 2
    /\ ret.v = Residue(0 - (Q \div 2))
\* C24: for every modulus M among q, 2^13 and 2 * gamma2 (both gamma2) and
\* every x in [0, q), which is below M^2, reduce(x) with SHIFT = 2 *
\* (floor(log2 M) + 1) and MULTIPLIER = floor(2^SHIFT / M) is x mod M; the
\* quotient it estimates is the true one or one below it, so that one
\* conditional subtraction is enough; x * MULTIPLIER stays below 2^64 and
\* x - quotient * M does not go below 0.
BarrettSound ==
    (pc = "reduced" /\ ret.M \in {Q, Pow2(SpecD), 2 * P.Gamma2}) =>
        /\ call.r \div ret.M < ret.M
        /\ SHIFT[ret.M] = 2 * (ILog2(ret.M) + 1)
        /\ MULTIPLIER[ret.M] = Pow2DivMod(SHIFT[ret.M], ret.M)[1]
        /\ ret.v = call.r % ret.M
        /\ (call.r \div ret.M) - ret.quotient \in {0, 1}
        /\ Bitlen(call.r) + Bitlen(MULTIPLIER[ret.M]) <= 64
        /\ SHIFT[ret.M] < 64
        /\ ret.quotient * ret.M <= call.r

\* reduce has run on a multiple of 2 * gamma2, where the quotient it
\* estimates is one below the true one
BarrettSoundWitness ==
    /\ pc = "reduced"
    /\ ret.M = 2 * P.Gamma2
    /\ call.r >= ret.M
    /\ call.r % ret.M = 0
    /\ ret.quotient = (call.r \div ret.M) - 1
    /\ ret.v = 0
(***************************************************************************)
(* Properties of the index tags of the masks                               *)
(***************************************************************************)
\* C25: in every iteration of the signing loop, for each parameter set and
\* each polynomial index l in [0, L), the tag kappa + l is at most 65535: its
\* 16-bit value LE16(kappa + l) is the tag itself, and is none of the tags
\* 0 .. kappa - 1 of the iterations before.
TagsWithinSixteenBits ==
    (pc = "signing" /\ kappa < U16Max) =>
        \A t \in MaskTags(P, kappa) :
            /\ t <= U16Max
            /\ LE16(t) = t
            /\ LE16(t) >= kappa
(***************************************************************************)
(* Properties of the constants                                             *)
(***************************************************************************)
\* C26: every definition of the modulus denotes the prime q = 2^23 - 2^13 + 1
\* = 8380417: SpecQ, and QMinus1 = q - 1, of param.rs are the modulus of
\* BaseField, with which key_gen_internal computes the t1 it encodes at the
\* width BitlenQMinusD, and that width, bitlen(q - 1) - 13, is 10.
ModulusDefinitionsAgree ==
    pc = "keyed" =>
        /\ Q = Pow2(23) - Pow2(13) + 1
        /\ Q = 8380417
        /\ SpecQ = Q
        /\ QMinus1 = Q - 1
        /\ BitlenQMinusD = Bitlen(Q - 1) - 13
        /\ BitlenQMinusD = 10
=================
